---- MODULE Spec2Model ----
(***************************************************************************)
(* Model of chscn's text cursor (src/src/lib.rs): `Position` and `Text`,   *)
(* a cursor over a &str with one character of lookahead, a marker and      *)
(* line/column tracking.                                                   *)
(*                                                                         *)
(* A `Chars<'a>` iterator is a view on the unread remainder of the source. *)
(* It is modelled by the number of codepoints it has already yielded, so   *)
(* `as_str()` of an iterator value k is the suffix of the text after its   *)
(* first k codepoints, and its `len()` is the UTF-8 byte length of that    *)
(* suffix.  An `Option<T>` is the empty sequence (None) or a one element   *)
(* sequence (Some).  Characters are their Unicode scalar values.           *)
(***************************************************************************)
EXTENDS Integers, Sequences, FiniteSets, TLC

\* Longest source text explored.
MaxLen == 3

\* Longest run of peek_next() results remembered between two next() calls.
MaxPeeks == 2

\* Characters that advance_position distinguishes, and one ordinary character.
CR  == 13
LF  == 10
VT  == 11
FF  == 12
NEL == 133
LS  == 8232
PS  == 8233
ChA == 97

Alphabet == {ChA, LF, CR, VT, FF, NEL, LS, PS}

RECURSIVE SeqsUpTo(_)
SeqsUpTo(n) ==
    IF n = 0 THEN {<<>>}
    ELSE LET shorter == SeqsUpTo(n - 1)
         IN shorter \cup {Append(s, c) : s \in {t \in shorter : Len(t) = n - 1}, c \in Alphabet}

Texts == SeqsUpTo(MaxLen)

VARIABLES
    text,         \* the borrowed source, a sequence of codepoints
    iter,         \* Text::iter, codepoints already pulled from the source
    position,     \* Text::position
    next,         \* Text::next, the lookahead buffer (Option<char>)
    marker,       \* Text::marker (Option<Chars>)
    last_was_cr,  \* Text::last_was_cr
    op,           \* the method called last
    ret,          \* what that call returned
    out,          \* characters returned by next() so far, in order
    posLog,       \* position() as it was before each of those next() calls
    markAt,       \* Len(out) at the most recent set_marker()
    sawNone,      \* some next() call has returned None
    peeked,       \* what the peek_next() calls since the last next() returned
    markerSet,    \* set_marker() was called and clear_marker() was not since
    markClean     \* the marker in place was set with the lookahead buffer empty

vars == <<text, iter, position, next, marker, last_was_cr,
          op, ret, out, posLog, markAt, sawNone, peeked, markerSet, markClean>>

----------------------------------------------------------------------------
\* Return values.

None == <<>>
Some(x) == <<x>>

RetUnit == [kind |-> "unit", val |-> <<>>]
RetPanic == [kind |-> "panic", val |-> <<>>]
RetOptChar(o) == [kind |-> "optchar", val |-> o]
RetBool(b) == [kind |-> "bool", val |-> IF b THEN <<1>> ELSE <<0>>]
RetStr(s) == [kind |-> "str", val |-> s]
RetPos(p) == [kind |-> "pos", val |-> <<p.line, p.column>>]

----------------------------------------------------------------------------
\* Position

PositionWith(l, c) == [line |-> l, column |-> c]

advance_char(p) == [p EXCEPT !.column = @ + 1]

\* advance_line that restarts the column count at 0.
advance_line_col0(p) == [line |-> p.line + 1, column |-> 0]

\* advance_line that counts the line twice.
advance_line_twice(p) == [line |-> p.line + 2, column |-> 1]

advance_line(p) == [line |-> p.line + 1, column |-> 1]

----------------------------------------------------------------------------
\* str and Chars

len_utf8(c) ==
    IF c < 128 THEN 1
    ELSE IF c < 2048 THEN 2
    ELSE IF c < 65536 THEN 3
    ELSE 4

RECURSIVE StrLen(_)
StrLen(s) == IF s = <<>> THEN 0 ELSE len_utf8(Head(s)) + StrLen(Tail(s))

\* Chars::as_str of an iterator that has yielded k codepoints of the text.
as_str(k) == SubSeq(text, k + 1, Len(text))

\* Chars::next: the item and the iterator afterwards (fused at the end).
CharsNext(k) ==
    IF k < Len(text)
    THEN [item |-> Some(text[k + 1]), iter |-> k + 1]
    ELSE [item |-> None, iter |-> k]

\* str::get(0..n) followed by unwrap(): the prefix of n bytes, a panic when
\* n is past the end or not on a character boundary.
StrGetPrefix(s, n) ==
    LET ks == {k \in 0..Len(s) : StrLen(SubSeq(s, 1, k)) = n}
    IN IF ks = {} THEN RetPanic
       ELSE RetStr(SubSeq(s, 1, CHOOSE k \in ks : TRUE))

----------------------------------------------------------------------------
\* Text

\* has_marker() that tests the marker the wrong way round.
has_marker_inverted == marker = None

has_marker == marker # None

\* slice_from_marker() that takes a missing marker for an empty slice.
slice_from_marker_lenient ==
    IF marker = None THEN [kind |-> "str", val |-> <<>>]
    ELSE LET s == as_str(marker[1])
             len == StrLen(s) - StrLen(as_str(iter)) - StrLen(next)
         IN IF len < 0 THEN RetPanic ELSE StrGetPrefix(s, len)

\* slice_from_marker() that forgets the buffered lookahead character.
slice_from_marker_nobuf ==
    IF marker = None THEN RetPanic
    ELSE LET s == as_str(marker[1])
             len == StrLen(s) - StrLen(as_str(iter))
         IN IF len < 0 \/ ~(len <= StrLen(s)) THEN RetPanic ELSE StrGetPrefix(s, len)

\* slice_from_marker() that counts the buffered character as one byte.
slice_from_marker_onebyte ==
    IF marker = None THEN RetPanic
    ELSE LET s == as_str(marker[1])
             len == StrLen(s) - StrLen(as_str(iter)) - Len(next)
         IN IF len < 0 \/ ~(len <= StrLen(s)) THEN RetPanic ELSE StrGetPrefix(s, len)

\* The value of slice_from_marker() in the current state.  The subtraction is
\* on usize: when it underflows, a build with overflow checks panics at the
\* subtraction, and a build without them wraps to a value above s.len(), on
\* which the assertion `len <= s.len()` panics.
slice_from_marker ==
    IF ~has_marker THEN RetPanic
    ELSE LET s == as_str(marker[1])
             rest == StrLen(as_str(iter))
             len == IF next # None
                    THEN StrLen(s) - rest - len_utf8(next[1])
                    ELSE StrLen(s) - rest
         IN IF len < 0 THEN RetPanic
            ELSE IF ~(len <= StrLen(s)) THEN RetPanic
            ELSE StrGetPrefix(s, len)

\* advance_position that counts a line for every LF, also after a CR.
advance_position_lf_always(pos, cr, ch) ==
    IF ch = CR THEN [position |-> advance_line(pos), last_was_cr |-> TRUE]
    ELSE IF ch \in {LF, FF, NEL, LS, PS}
        THEN [position |-> advance_line(pos), last_was_cr |-> FALSE]
    ELSE IF ch = VT
        THEN [position |-> [pos EXCEPT !.line = @ + 1], last_was_cr |-> FALSE]
    ELSE [position |-> advance_char(pos), last_was_cr |-> FALSE]

\* advance_position that treats the vertical tab like a form feed.
advance_position_vt_reset(pos, cr, ch) ==
    IF ch = CR THEN [position |-> advance_line(pos), last_was_cr |-> TRUE]
    ELSE IF ch = LF THEN
        IF ~cr
        THEN [position |-> advance_line(pos), last_was_cr |-> FALSE]
        ELSE [position |-> pos, last_was_cr |-> cr]
    ELSE IF ch \in {VT, FF, NEL, LS, PS}
        THEN [position |-> advance_line(pos), last_was_cr |-> FALSE]
    ELSE [position |-> advance_char(pos), last_was_cr |-> FALSE]

\* Position and CR flag after consuming ch.
advance_position(pos, cr, ch) ==
    IF ch = CR THEN
        [position |-> advance_line(pos), last_was_cr |-> TRUE]
    ELSE IF ch = LF THEN
        IF ~cr
        THEN [position |-> advance_line(pos), last_was_cr |-> FALSE]
        ELSE [position |-> pos, last_was_cr |-> cr]
    ELSE IF ch = VT THEN
        [position |-> [pos EXCEPT !.line = @ + 1], last_was_cr |-> FALSE]
    ELSE IF ch \in {FF, NEL, LS, PS} THEN
        [position |-> advance_line(pos), last_was_cr |-> FALSE]
    ELSE
        [position |-> advance_char(pos), last_was_cr |-> FALSE]

\* peek_next() that pulls from the source on every call.
PeekFill_refill == CharsNext(iter)

\* The lookahead buffer after peek_next() ran its fill step.
PeekFill == IF next = None THEN CharsNext(iter) ELSE [item |-> next, iter |-> iter]

\* next() that ignores the lookahead buffer.
NextTake_skip == CharsNext(iter)

\* next() that hands out the buffered character and also pulls a fresh one.
NextTake_pull == IF next # None THEN [item |-> next, iter |-> CharsNext(iter).iter]
                 ELSE CharsNext(iter)

\* The character next() takes and the iterator afterwards.
NextTake == IF next # None THEN [item |-> next, iter |-> iter] ELSE CharsNext(iter)

\* The iterator value set_marker() stores.
MarkerValue == Some(iter)

----------------------------------------------------------------------------
\* Text::with_str
Init ==
    /\ text \in Texts
    /\ iter = 0
    /\ position = PositionWith(1, 1)
    /\ next = None
    /\ marker = None
    /\ last_was_cr = FALSE
    /\ op = "with_str"
    /\ ret = RetUnit
    /\ out = <<>>
    /\ posLog = <<>>
    /\ markAt = 0
    /\ sawNone = FALSE
    /\ peeked = <<>>
    /\ markerSet = FALSE
    /\ markClean = FALSE

\* Text::position
PositionCall ==
    /\ op' = "position"
    /\ ret' = RetPos(position)
    /\ UNCHANGED <<text, iter, position, next, marker, last_was_cr,
                   out, posLog, markAt, sawNone, peeked, markerSet, markClean>>

\* peek_next() that moves the position when it fills the lookahead buffer.
PeekNext_advancing ==
    /\ next' = PeekFill.item
    /\ iter' = PeekFill.iter
    /\ position' = IF next = None /\ PeekFill.item # None
                   THEN advance_position(position, last_was_cr, PeekFill.item[1]).position
                   ELSE position
    /\ op' = "peek_next"
    /\ ret' = RetOptChar(PeekFill.item)
    /\ peeked' = IF Len(peeked) < MaxPeeks THEN Append(peeked, PeekFill.item) ELSE peeked
    /\ UNCHANGED <<text, marker, last_was_cr, out, posLog, markAt, sawNone,
                   markerSet, markClean>>

\* Text::peek_next
PeekNext ==
    /\ next' = PeekFill.item
    /\ iter' = PeekFill.iter
    /\ op' = "peek_next"
    /\ ret' = RetOptChar(PeekFill.item)
    /\ peeked' = IF Len(peeked) < MaxPeeks THEN Append(peeked, PeekFill.item) ELSE peeked
    /\ UNCHANGED <<text, position, marker, last_was_cr, out, posLog, markAt, sawNone,
                   markerSet, markClean>>

\* Text::set_marker
SetMarker ==
    /\ marker' = MarkerValue
    /\ markAt' = Len(out)
    /\ markerSet' = TRUE
    /\ markClean' = (next = None)
    /\ op' = "set_marker"
    /\ ret' = RetUnit
    /\ UNCHANGED <<text, iter, position, next, last_was_cr, out, posLog, sawNone, peeked>>

\* Text::clear_marker
ClearMarker ==
    /\ marker' = None
    /\ markerSet' = FALSE
    /\ markClean' = FALSE
    /\ op' = "clear_marker"
    /\ ret' = RetUnit
    /\ UNCHANGED <<text, iter, position, next, last_was_cr, out, posLog, markAt, sawNone,
                   peeked>>

\* Text::has_marker
HasMarker ==
    /\ op' = "has_marker"
    /\ ret' = RetBool(has_marker)
    /\ UNCHANGED <<text, iter, position, next, marker, last_was_cr,
                   out, posLog, markAt, sawNone, peeked, markerSet, markClean>>

\* Text::slice_from_marker
SliceFromMarker ==
    /\ op' = "slice_from_marker"
    /\ ret' = slice_from_marker
    /\ UNCHANGED <<text, iter, position, next, marker, last_was_cr,
                   out, posLog, markAt, sawNone, peeked, markerSet, markClean>>

\* Iterator::next for Text
IterNext ==
    LET ch == NextTake.item
    IN /\ next' = None
       /\ iter' = NextTake.iter
       /\ IF ch # None
          THEN LET adv == advance_position(position, last_was_cr, ch[1])
               IN /\ position' = adv.position
                  /\ last_was_cr' = adv.last_was_cr
                  /\ out' = Append(out, ch[1])
                  /\ posLog' = Append(posLog, position)
                  /\ UNCHANGED sawNone
          ELSE /\ sawNone' = TRUE
               /\ UNCHANGED <<position, last_was_cr, out, posLog>>
       /\ op' = "next"
       /\ ret' = RetOptChar(ch)
       /\ peeked' = <<>>
       /\ UNCHANGED <<text, marker, markAt, markerSet, markClean>>

Next ==
    \/ PositionCall
    \/ PeekNext
    \/ SetMarker
    \/ ClearMarker
    \/ HasMarker
    \/ SliceFromMarker
    \/ IterNext

Spec == Init /\ [][Next]_vars

----------------------------------------------------------------------------
\* Types of the state.
TypeOK ==
    /\ text \in Texts
    /\ iter \in 0..Len(text)
    /\ position.line >= 1 /\ position.column >= 1
    /\ Len(next) <= 1
    /\ Len(marker) <= 1
    /\ last_was_cr \in BOOLEAN

----------------------------------------------------------------------------
\* Vocabulary of the properties.

\* The logical read position: the index (in codepoints) of the character the
\* next next() returns, the buffered one when the lookahead is filled.
ReadPos == iter - Len(next)

\* position() before and after the n-th character was consumed.
PosBefore(n) == posLog[n]
PosAfter(n) == IF n < Len(out) THEN posLog[n + 1] ELSE position

\* The characters next() returned since the most recent set_marker().
SinceMarker == SubSeq(out, markAt + 1, Len(out))

----------------------------------------------------------------------------
\* C1: with a marker set, slice_from_marker() returns exactly the characters
\* that next() returned since the most recent set_marker() call, whatever
\* peek_next() calls came before or after the set_marker().
C1_RoundTrip ==
    (op = "slice_from_marker" /\ has_marker) => ret = RetStr(SinceMarker)

\* C2: with a marker set, slice_from_marker() succeeds: the length it computes
\* is non-negative and at most the marker remainder's length, so it never
\* panics.
C2_SliceSucceeds ==
    (op = "slice_from_marker" /\ has_marker) => ret.kind = "str"

\* C3: with a marker set, the marker's source offset is at most the logical
\* read position, and right after set_marker() the two are equal.
C3_MarkerNotAhead ==
    has_marker =>
        /\ marker[1] <= ReadPos
        /\ op = "set_marker" => marker[1] = ReadPos

\* C4: peek_next() calls with no next() in between all return the same value
\* and leave position() unchanged, and the next() that follows returns that
\* value too.
C4_PeekIdempotent ==
    [][ /\ (peeked # <<>> /\ op' \in {"peek_next", "next"}) => ret'.val = peeked[1]
        /\ (op' = "peek_next") => position' = position ]_vars

C4_Witness ==
    /\ Len(peeked) >= 2
    /\ op = "peek_next"
    /\ ret.val # None
    /\ out # <<>>

\* C5: once a next() call returned None, every later next() and peek_next()
\* returns None, and next() returns None only after every codepoint of the
\* source has been returned.
C5_Exhaustion ==
    /\ [](sawNone => out = text)
    /\ [][ (sawNone /\ op' \in {"peek_next", "next"}) => ret'.val = None ]_vars

C5_Witness ==
    /\ sawNone
    /\ op = "peek_next"
    /\ ret.val = None
    /\ Len(out) >= 2
    /\ has_marker

\* C6: every LF that is not immediately preceded by a CR in the consumed
\* sequence is one line break: consuming it increases the line by exactly 1
\* and sets the column to 1, also when it directly follows a CRLF pair.
C6_LoneLfBreaksLine ==
    \A n \in 1..Len(out) :
        (out[n] = LF /\ (n = 1 \/ out[n - 1] # CR)) =>
            PosAfter(n) = PositionWith(PosBefore(n).line + 1, 1)

\* C7: consuming a CR immediately followed by an LF increases the line by
\* exactly 1 in total and leaves the column at 1 after the pair, whatever
\* peek_next() calls come between the two.
C7_CrLfCollapse ==
    \A n \in 2..Len(out) :
        (out[n - 1] = CR /\ out[n] = LF) =>
            /\ PosAfter(n - 1) = PositionWith(PosBefore(n - 1).line + 1, 1)
            /\ PosAfter(n) = PositionWith(PosBefore(n - 1).line + 1, 1)

C7_Witness ==
    /\ Len(out) = 3
    /\ out[1] = ChA /\ out[2] = CR /\ out[3] = LF
    /\ op = "next"
    /\ position = PositionWith(2, 1)

\* The (line, column) a reader gives to the character after the first k
\* characters of a text of ordinary characters and LF.
LfCount(k) == Cardinality({j \in 1..k : text[j] = LF})
LastLf(k) == IF LfCount(k) = 0 THEN 0
             ELSE CHOOSE j \in 1..k : text[j] = LF /\ \A m \in (j + 1)..k : text[m] # LF
HumanPos(k) == PositionWith(1 + LfCount(k), 1 + (k - LastLf(k)))

\* C8: for a text of ordinary characters and LF only, position() read before
\* the next() call that returns the character at index i is (1 + the number
\* of LF among the first i characters, 1 + the number of characters after the
\* last LF among them); the cursor starts at (1,1).
C8_PositionLfText ==
    (\A j \in 1..Len(text) : text[j] \in {ChA, LF}) =>
        /\ \A n \in 1..Len(out) : PosBefore(n) = HumanPos(n - 1)
        /\ op = "with_str" => position = PositionWith(1, 1)

C8_Witness ==
    /\ text = <<ChA, LF, ChA>>
    /\ Len(out) = 3
    /\ posLog[3] = PositionWith(2, 1)

\* C9: consuming a vertical tab increases the line by 1 and leaves the column
\* unchanged; consuming FF, NEL, LS or PS increases the line by 1 and sets the
\* column to 1; all five clear the CR flag.
C9_OtherLineBreaks ==
    /\ \A n \in 1..Len(out) :
        /\ out[n] = VT =>
               PosAfter(n) = PositionWith(PosBefore(n).line + 1, PosBefore(n).column)
        /\ out[n] \in {FF, NEL, LS, PS} =>
               PosAfter(n) = PositionWith(PosBefore(n).line + 1, 1)
    /\ (out # <<>> /\ out[Len(out)] \in {VT, FF, NEL, LS, PS}) => ~last_was_cr

C9_Witness ==
    /\ out = <<ChA, VT>>
    /\ op = "next"
    /\ position = PositionWith(2, 2)

\* C10: slice_from_marker() called with no marker set panics and yields no
\* slice, and it changes no cursor state.
C10_SliceWithoutMarker ==
    /\ []((op = "slice_from_marker" /\ ~has_marker) => ret = RetPanic)
    /\ [][ op' = "slice_from_marker" =>
             UNCHANGED <<text, iter, position, next, marker, last_was_cr>> ]_vars

C10_Witness ==
    /\ op = "slice_from_marker"
    /\ ~has_marker
    /\ markAt > 0
    /\ ret.kind = "panic"

\* C11: the characters returned by successive next() calls are the source's
\* codepoints in order, each once, whatever other calls are interleaved.
C11_FaithfulStream ==
    /\ Len(out) <= Len(text)
    /\ out = SubSeq(text, 1, Len(out))
    /\ (op = "next" /\ ret.val = None) => out = text

C11_Witness ==
    /\ Len(text) = 3
    /\ out = text
    /\ op = "slice_from_marker"
    /\ peeked # <<>>
    /\ marker # None

\* C12: with a marker set and slice_from_marker() succeeding, a peek_next()
\* call leaves the value of slice_from_marker() unchanged.
C12_PeekKeepsSlice ==
    [][ (op' = "peek_next" /\ marker # None /\ slice_from_marker.kind = "str")
            => slice_from_marker' = slice_from_marker ]_vars

C12_Witness ==
    /\ op = "peek_next"
    /\ Len(peeked) = 1
    /\ marker # None
    /\ next # None /\ len_utf8(next[1]) > 1
    /\ slice_from_marker.kind = "str"
    /\ slice_from_marker.val # <<>>

\* C13: position() changes only when next() returns a character, and such a
\* next() applies the line-break classification to that character once.
C13_PositionOnlyByNext ==
    [][ IF op' = "next" /\ ret'.val # None
        THEN position' = advance_position(position, last_was_cr, ret'.val[1]).position
        ELSE position' = position ]_vars

C13_Witness ==
    /\ op = "peek_next"
    /\ ret.val # None
    /\ out # <<>>
    /\ position = PosAfter(Len(out))
    /\ position # PositionWith(1, 1)
    /\ marker # None

\* C14: has_marker() is true exactly when set_marker() was called and
\* clear_marker() was not called since; a new cursor has no marker; one
\* clear_marker() removes the marker however often it was set;
\* clear_marker() without a marker changes nothing; next() and peek_next()
\* leave the marker alone.
C14_MarkerTracking ==
    /\ []((marker # None) <=> markerSet)
    /\ [](op = "has_marker" => ret = RetBool(markerSet))
    /\ [](op \in {"with_str", "clear_marker"} => marker = None)
    /\ [][ /\ (op' = "clear_marker" /\ marker = None) =>
                UNCHANGED <<text, iter, position, next, marker, last_was_cr>>
           /\ (op' \in {"next", "peek_next"}) => marker' = marker ]_vars

C14_Witness ==
    /\ op = "has_marker"
    /\ ret = RetBool(FALSE)
    /\ markAt > 0
    /\ next # None

\* C15: when set_marker() was called with the lookahead buffer empty,
\* slice_from_marker() returns exactly the characters next() returned since
\* that set_marker(), without a character that was only peeked.
C15_SliceAfterCleanMarker ==
    (op = "slice_from_marker" /\ marker # None /\ markClean)
        => ret = RetStr(SinceMarker)

C15_Witness ==
    /\ op = "slice_from_marker"
    /\ marker # None /\ markClean
    /\ markAt >= 1
    /\ next # None /\ len_utf8(next[1]) > 1
    /\ ret.kind = "str" /\ ret.val # <<>>

\* C16: line and column are at least 1; the line never decreases and grows
\* by at most 1 per next(); the column stays, grows by 1 or is reset to 1,
\* and it is reset only by a next() that also increased the line.
C16_PositionBounds ==
    /\ [](position.line >= 1 /\ position.column >= 1)
    /\ [][ /\ position'.line \in {position.line, position.line + 1}
           /\ position'.line # position.line => op' = "next"
           /\ position'.column \in {position.column, position.column + 1, 1}
           /\ (position'.column = 1 /\ position.column # 1) =>
                (op' = "next" /\ position'.line = position.line + 1) ]_vars

C16_Witness ==
    /\ op = "next"
    /\ Len(out) >= 2
    /\ PosBefore(Len(out)).column > 1
    /\ position = PositionWith(PosBefore(Len(out)).line + 1, 1)

\* C17: last_was_cr is true exactly when a character has been consumed and
\* the most recently consumed one was CR; it is false after the LF of a CRLF
\* pair.
C17_CrFlagExact ==
    last_was_cr <=> (out # <<>> /\ out[Len(out)] = CR)

====
